---- MODULE Spec2Model ----
(***************************************************************************)
(* A model of report_generator.py: one Streamlit script whose every run   *)
(* validates the form, may call the text-generation backend, and then     *)
(* renders the stored text and its PPTX / Word downloads.                  *)
(*                                                                         *)
(* A text is a sequence of one-character strings.  Three characters that   *)
(* are not ASCII are written as named tokens:                              *)
(*   MARK  the literal "yi-dun zhuan-an ming-cheng" ("1, project name")    *)
(*         that both title patterns start with; the patterns only ever     *)
(*         match it as a whole, so it is one token;                        *)
(*   CJK2  a CJK numeral, DUN the ideographic comma.                       *)
(***************************************************************************)
EXTENDS Integers, Sequences, FiniteSets

VARIABLES
    generated_text,   \* st.session_state["generated_text"]
    selected_blocks,  \* the sidebar multiselect, as read by the last run
    field_values,     \* the text areas of the selected blocks, last run
    clicked,          \* whether the last run was a click of the generate button
    gen_outcome,      \* what the last run's call of generate_content did
    messages,         \* st.warning / st.error boxes and an uncaught exception
    preview,          \* the text shown by st.markdown / st.code, or NONE
    filename_base,    \* the run's filename_base, or NONE
    pptx_4x3,         \* the 4:3 download button
    pptx_16x9,        \* the 16:9 download button
    docx              \* the Word download button

vars == <<generated_text, selected_blocks, field_values, clicked, gen_outcome, messages,
          preview, filename_base, pptx_4x3, pptx_16x9, docx>>

----------------------------------------------------------------------------
(* Characters and strings *)

\* Python's None, where a string is expected
NONE == <<"None">>
NL == "\n"
MARK == "MARK"
CJK2 == "CJK2"
DUN == "DUN"
EMPTY == << >>

Min(S) == CHOOSE x \in S : \A y \in S : x <= y
Max(S) == CHOOSE x \in S : \A y \in S : x >= y

\* \s of the re module, and the characters str.strip() removes
IsWs(c) == c \in {" ", NL}

\* str.strip()
Strip(s) ==
    LET keep == {i \in 1..Len(s) : ~IsWs(s[i])}
    IN  IF keep = {} THEN EMPTY ELSE SubSeq(s, Min(keep), Max(keep))

\* s[i:j] with 1-based i and exclusive j
Slice(s, i, j) == SubSeq(s, i, j - 1)

\* the first position >= p whose character is not whitespace, Len+1 if none
WsEnd(t, p) ==
    LET c == {j \in p..Len(t) : ~IsWs(t[j])}
    IN  IF c = {} THEN Len(t) + 1 ELSE Min(c)

\* the position of the first newline at or after p, Len+1 if none
LineEnd(t, p) ==
    LET c == {j \in p..Len(t) : t[j] = NL}
    IN  IF c = {} THEN Len(t) + 1 ELSE Min(c)

\* str.split("\n")
RECURSIVE SplitLines(_)
SplitLines(s) ==
    LET e == LineEnd(s, 1)
    IN  IF e > Len(s) THEN <<s>>
        ELSE <<Slice(s, 1, e)>> \o SplitLines(SubSeq(s, e + 1, Len(s)))

(* Where the group (.+) starts when the regex reads  \s{minWs,}(.+)  at p.  *)
(* \s is greedy and also matches newlines; '.' matches anything but a       *)
(* newline.  With a character after the whitespace run the group starts     *)
(* there; when the run reaches the end of the text the engine backtracks to *)
(* the last whitespace character that is not a newline.  0: no match.       *)
DotPlusStart(t, p, minWs) ==
    LET q == WsEnd(t, p)
        back == {r \in (p + minWs)..Len(t) : t[r] # NL}
    IN  IF q <= Len(t)
        THEN (IF q - p >= minWs THEN q ELSE 0)
        ELSE (IF back = {} THEN 0 ELSE Max(back))

----------------------------------------------------------------------------
(* extract_project_title and the filename characters *)

TitleBullets == {"-", "FULLWIDTH*", "*"}

\* one pattern of extract_project_title tried with MARK at position i:
\* MARK [^\n\r]* \n \s* ([-*]\s*)? (.+) ; the start of group 1, or 0
TitleGroupAt(t, i, bullet) ==
    LET e == LineEnd(t, i + 1)
        a == WsEnd(t, e + 1)
    IN  IF t[i] # MARK \/ e > Len(t) THEN 0
        ELSE IF bullet
             THEN (IF a <= Len(t) /\ t[a] \in TitleBullets
                   THEN DotPlusStart(t, a + 1, 0) ELSE 0)
             ELSE DotPlusStart(t, e + 1, 0)

\* re.search(pat, text).group(1), or NONE
TitleSearch(t, bullet) ==
    LET hits == {i \in 1..Len(t) : TitleGroupAt(t, i, bullet) # 0}
    IN  IF hits = {} THEN NONE
        ELSE LET d == TitleGroupAt(t, Min(hits), bullet)
             IN  Slice(t, d, LineEnd(t, d))

\* re.sub(r"\s*\(.*?\)$", "", title): a title that ends in ")" loses
\* everything from the whitespace before its first "(" on
StripRemark(title) ==
    LET n == Len(title)
        opens == {k \in 1..(n - 1) : title[k] = "("}
    IN  IF n = 0 \/ opens = {} THEN title
        ELSE IF title[n] # ")" THEN title
        ELSE LET o == Min(opens)
                 nonws == {k \in 1..(o - 1) : ~IsWs(title[k])}
             IN  IF nonws = {} THEN EMPTY ELSE SubSeq(title, 1, Max(nonws))

extract_project_title(text) ==
    LET m1 == TitleSearch(text, TRUE)
        m2 == TitleSearch(text, FALSE)
    IN  IF m1 # NONE THEN StripRemark(Strip(m1))
        ELSE IF m2 # NONE THEN StripRemark(Strip(m2))
        ELSE NONE

IllegalChars == {"\\", "/", ":", "*", "?", "\"", "<", ">", "|"}

\* re.sub(r'[\\/:*?"<>|]', "_", filename_base)
SanitizeFilename(name) ==
    [k \in 1..Len(name) |-> IF name[k] \in IllegalChars THEN "_" ELSE name[k]]

----------------------------------------------------------------------------
(* HEADER_RE and the two assemblers *)

HashMax == 6
HeaderBullets == {"-", "*"}

IsLineStart(t, i) == i = 1 \/ t[i - 1] = NL

NoMatch == [start |-> 0, end |-> 0, title |-> EMPTY]

\* HEADER_RE with a second alternative: a line that is **text** is a heading too
HeaderAtBold(t, i) ==
    LET a == WsEnd(t, i)
        b == IF a <= Len(t) /\ t[a] \in HeaderBullets THEN WsEnd(t, a + 1) ELSE a
        nothash == {j \in b..Len(t) : t[j] # "#"}
        h == IF nothash = {} THEN Len(t) + 1 ELSE Min(nothash)
        d == DotPlusStart(t, h, 1)
        e == LineEnd(t, i)
    IN  IF ~IsLineStart(t, i) THEN NoMatch
        ELSE IF e - i >= 5 /\ t[i] = "*" /\ t[i + 1] = "*" /\ t[e - 2] = "*" /\ t[e - 1] = "*"
        THEN [start |-> i, end |-> e, title |-> Slice(t, i + 2, e - 2)]
        ELSE IF b > Len(t) THEN NoMatch
        ELSE IF h - b < 1 \/ h - b > HashMax \/ d = 0 THEN NoMatch
        ELSE [start |-> i, end |-> LineEnd(t, d), title |-> Slice(t, d, LineEnd(t, d))]

\* HEADER_RE tried at position i: ^\s*(?:[-*]\s*)?(#{1,6})\s+(.+)$ with re.M.
\* start and end are h.start() and h.end() (1-based, end exclusive), title is
\* h.group(2)
HeaderAt(t, i) ==
    LET a == WsEnd(t, i)
        b == IF a <= Len(t) /\ t[a] \in HeaderBullets THEN WsEnd(t, a + 1) ELSE a
        nothash == {j \in b..Len(t) : t[j] # "#"}
        h == IF nothash = {} THEN Len(t) + 1 ELSE Min(nothash)
        d == DotPlusStart(t, h, 1)
    IN  IF ~IsLineStart(t, i) \/ b > Len(t) THEN NoMatch
        ELSE IF h - b < 1 \/ h - b > HashMax \/ d = 0 THEN NoMatch
        ELSE [start |-> i, end |-> LineEnd(t, d), title |-> Slice(t, d, LineEnd(t, d))]

\* list(HEADER_RE.finditer(text)), scanning from position `from`
RECURSIVE HeadersFrom(_, _)
HeadersFrom(t, from) ==
    LET hits == {i \in from..Len(t) : HeaderAt(t, i) # NoMatch}
    IN  IF hits = {} THEN << >>
        ELSE LET m == HeaderAt(t, Min(hits))
             IN  <<m>> \o HeadersFrom(t, m.end)

Headers(t) == HeadersFrom(t, 1)

\* the (heading, content) pairs the section loops make of the matches hs:
\* h.group(2).strip() and text[h.end() : next.start() or len(text)].strip()
SectionsOf(t, hs) ==
    [k \in 1..Len(hs) |->
        [title |-> Strip(hs[k].title),
         body  |-> Strip(Slice(t, hs[k].end,
                               IF k + 1 <= Len(hs) THEN hs[k + 1].start
                               ELSE Len(t) + 1))]]

Sections(t) == SectionsOf(t, Headers(t))

\* add_slide(title, content) of build_pptx
add_slide(title, content) ==
    [layout |-> 1, title |-> title, content |-> content, lines |-> SplitLines(content)]

\* the title slide of build_pptx
TitleSlide(title_text) ==
    [layout |-> 0, title |-> title_text, content |-> EMPTY, lines |-> << >>]

\* the section loop without its else branch: no slide for a text without headings
ContentSlidesNoFallback(markdown_text, title_text, secs) ==
    [k \in 1..Len(secs) |-> add_slide(secs[k].title, secs[k].body)]

\* lines 429-440: one content slide per match, or the whole text on one slide
ContentSlides(markdown_text, title_text, secs) ==
    IF Len(secs) > 0
    THEN [k \in 1..Len(secs) |-> add_slide(secs[k].title, secs[k].body)]
    ELSE <<add_slide(title_text, markdown_text)>>

\* build_pptx(markdown_text, title_text, aspect): the deck's slides in order
build_pptx(markdown_text, title_text, aspect) ==
    [width  |-> IF aspect = "16:9" THEN "13.333in" ELSE "10in",
     slides |-> <<TitleSlide(title_text)>>
                \o ContentSlides(markdown_text, title_text, Sections(markdown_text))]

\* the paragraphs of one section: its non-blank lines
BodyParagraphs(ls) ==
    [k \in 1..Len(ls) |-> [kind |-> "paragraph", text |-> ls[k]]]

\* lines 489-495: the blocks one section adds to the Word document
SectionBlocks(sec) ==
    <<[kind |-> "heading", text |-> sec.title]>>
    \o BodyParagraphs(SelectSeq(SplitLines(sec.body), LAMBDA l : Strip(l) # EMPTY))

RECURSIVE ConcatBlocks(_, _)
ConcatBlocks(secs, k) ==
    IF k > Len(secs) THEN << >>
    ELSE SectionBlocks(secs[k]) \o ConcatBlocks(secs, k + 1)

\* lines 481-497
DocBlocks(generated, secs) ==
    IF Len(secs) > 0 THEN ConcatBlocks(secs, 1)
    ELSE <<[kind |-> "paragraph", text |-> generated]>>

\* the Word export's body: the document's blocks in order
build_docx(generated) == DocBlocks(generated, Sections(generated))

----------------------------------------------------------------------------
(* The inputs of one script run *)

\* two of the six blocks of available_blocks: "ProjectName" is the block whose
\* text area is project_title, "ProjectGoal" stands for the other five, which
\* the script treats alike
available_blocks == {"ProjectName", "ProjectGoal"}

\* what a text area can hold: nothing, only whitespace, some text
FieldTexts == {EMPTY, <<" ">>, <<"u">>}

FormInputs == UNION {[sel -> FieldTexts] : sel \in SUBSET available_blocks}

\* field_values.get(b, "")
FieldGet(fv, b) == IF b \in DOMAIN fv THEN fv[b] ELSE EMPTY

\* the validation without .strip(): a field of blanks counts as filled in
MissingBlocksNoStrip(fv) == {b \in DOMAIN fv : FieldGet(fv, b) = EMPTY}

\* missing = [b for b in selected_blocks if not field_values.get(b, "").strip()]
MissingBlocks(fv) == {b \in DOMAIN fv : Strip(FieldGet(fv, b)) = EMPTY}

(* How the export backends behave in one run: each of the two build_pptx   *)
(* calls and the python-docx block either works, raises ImportError, or    *)
(* raises some other exception.  A step the run never reaches is written   *)
(* "ok".                                                                   *)
Outcomes == {"ok", "ImportError", "Error"}

PptxRaised(ex) == IF ex.p43 # "ok" THEN ex.p43 ELSE ex.p169

ExportOutcomes ==
    {ex \in [p43 : Outcomes, p169 : Outcomes, docx : Outcomes] :
        /\ ex.p43 # "ok" => ex.p169 = "ok"
        /\ PptxRaised(ex) = "Error" => ex.docx = "ok"}

AllOk == [p43 |-> "ok", p169 |-> "ok", docx |-> "ok"]

----------------------------------------------------------------------------
(* Section 13 of the script: the result display and the downloads *)

NoButton == [offered |-> FALSE, file_name |-> EMPTY, data |-> EMPTY]

Button(name, data) == [offered |-> TRUE, file_name |-> name, data |-> data]

NothingShown(msgs) ==
    [messages |-> msgs, preview |-> NONE, filename_base |-> NONE,
     pptx_4x3 |-> NoButton, pptx_16x9 |-> NoButton, docx |-> NoButton]

\* the filename choice with the user's title first, the stored text second
ChooseFilenameBaseUserFirst(project_title, text) ==
    IF Strip(project_title) # EMPTY THEN SanitizeFilename(Strip(project_title))
    ELSE IF extract_project_title(text) \in {NONE, EMPTY} THEN NONE
    ELSE SanitizeFilename(extract_project_title(text))

\* the filename choice that falls back to "<report kind>_<timestamp>"
ChooseFilenameBaseFallback(project_title, text) ==
    IF extract_project_title(text) \in {NONE, EMPTY}
    THEN <<"report_kind", "_", "timestamp">>
    ELSE SanitizeFilename(extract_project_title(text))

\* lines 347-353: the filename base comes from the stored text alone
ChooseFilenameBase(project_title, text) ==
    LET t == extract_project_title(text)
    IN  IF t = NONE \/ t = EMPTY THEN NONE ELSE SanitizeFilename(t)

\* lines 448-469: which exceptions of the PPTX block the script survives
PptxCaught(exc) == exc = "ImportError"

\* lines 472-510
DocxCaught(exc) == exc = "ImportError"

\* lines 448-510 for a run that has a filename base
RenderDownloads(text, fb, ex, msgs) ==
    [messages |->
        msgs \cup (IF PptxRaised(ex) = "ok" THEN {}
                   ELSE IF PptxCaught(PptxRaised(ex)) THEN {"pptx_import_error"}
                   ELSE {"pptx_exception"})
             \cup (IF PptxRaised(ex) # "ok" /\ ~PptxCaught(PptxRaised(ex)) THEN {}
                   ELSE IF ex.docx = "ok" THEN {}
                   ELSE IF DocxCaught(ex.docx) THEN {"docx_import_error"}
                   ELSE {"docx_exception"}),
     preview |-> Strip(text),
     filename_base |-> fb,
     pptx_4x3 |->
        IF ex.p43 = "ok"
        THEN Button(fb \o <<"_4x3.pptx">>, build_pptx(text, fb, "4:3"))
        ELSE NoButton,
     pptx_16x9 |->
        IF ex.p43 = "ok" /\ ex.p169 = "ok"
        THEN Button(fb \o <<"_16x9.pptx">>, build_pptx(text, fb, "16:9"))
        ELSE NoButton,
     docx |->
        IF (PptxRaised(ex) = "ok" \/ PptxCaught(PptxRaised(ex))) /\ ex.docx = "ok"
        THEN Button(fb \o <<".docx">>, build_docx(text))
        ELSE NoButton]

\* lines 347-351 and on: the error box or the downloads
RenderExport(text, fb, ex, msgs) ==
    IF fb = NONE
    THEN [NothingShown(msgs \cup {"no_title"}) EXCEPT !.preview = Strip(text)]
    ELSE RenderDownloads(text, fb, ex, msgs)

\* the page below the button, for the stored text `text` (line 314 on)
Render(text, project_title, ex, msgs) ==
    IF text = EMPTY THEN NothingShown(msgs)
    ELSE RenderExport(text, ChooseFilenameBase(project_title, text), ex, msgs)

Show(page) ==
    /\ messages' = page.messages
    /\ preview' = page.preview
    /\ filename_base' = page.filename_base
    /\ pptx_4x3' = page.pptx_4x3
    /\ pptx_16x9' = page.pptx_16x9
    /\ docx' = page.docx

NotCalled == [kind |-> "not_called", text |-> EMPTY]

----------------------------------------------------------------------------
(* The script's runs *)

\* texts the generation backend returns in the session specification
SessionTexts ==
    {EMPTY,
     <<"a">>,
     <<MARK, NL, "a">>,
     <<"#", " ", MARK, NL, "a", "/", "b", NL, "#", " ", "b", NL, "c">>}

(* A change of a sidebar or form widget reruns the script with the new     *)
(* widget values and the button not clicked; a click of the button (or of  *)
(* a download button) reruns it with the widget values as they are.        *)

\* a run in which the generate button was not clicked
Rerun(fv, ex) ==
    /\ clicked' = FALSE
    /\ selected_blocks' = DOMAIN fv
    /\ field_values' = fv
    /\ gen_outcome' = NotCalled
    /\ UNCHANGED generated_text
    /\ Show(Render(generated_text, FieldGet(fv, "ProjectName"), ex, {}))

\* line 61-67: no API key, st.stop() before anything is drawn
RunNoApiKey ==
    /\ UNCHANGED <<generated_text, selected_blocks, field_values>>
    /\ clicked' = FALSE
    /\ gen_outcome' = NotCalled
    /\ Show(NothingShown({"no_api_key"}))

\* lines 287-288
ClickNoBlocks(ex) ==
    /\ clicked' = TRUE
    /\ selected_blocks = {}
    /\ gen_outcome' = NotCalled
    /\ UNCHANGED <<generated_text, selected_blocks, field_values>>
    /\ Show(Render(generated_text, FieldGet(field_values, "ProjectName"), ex,
                   {"no_blocks"}))

\* lines 290-292
ClickMissing(ex) ==
    /\ clicked' = TRUE
    /\ selected_blocks # {}
    /\ MissingBlocks(field_values) # {}
    /\ gen_outcome' = NotCalled
    /\ UNCHANGED <<generated_text, selected_blocks, field_values>>
    /\ Show(Render(generated_text, FieldGet(field_values, "ProjectName"), ex,
                   {"missing"}))

\* lines 197-199: generate_content finds no template file and calls st.stop()
ClickTemplateMissing ==
    /\ clicked' = TRUE
    /\ selected_blocks # {}
    /\ MissingBlocks(field_values) = {}
    /\ gen_outcome' = [kind |-> "template_missing", text |-> EMPTY]
    /\ UNCHANGED <<generated_text, selected_blocks, field_values>>
    /\ Show(NothingShown({"no_template"}))

\* lines 308-309: the text the session holds after generate_content gave `result`
StoreGenerated(old, result) == IF result # EMPTY /\ result # NONE THEN result ELSE old

\* lines 294-309, the backend returning `text`
ClickGenerated(text, ex) ==
    /\ clicked' = TRUE
    /\ selected_blocks # {}
    /\ MissingBlocks(field_values) = {}
    /\ gen_outcome' = [kind |-> "returned", text |-> text]
    /\ generated_text' = StoreGenerated(generated_text, text)
    /\ UNCHANGED <<selected_blocks, field_values>>
    /\ Show(Render(generated_text', FieldGet(field_values, "ProjectName"), ex, {}))

\* lines 305-307, the backend raising
ClickGenerateError(ex) ==
    /\ clicked' = TRUE
    /\ selected_blocks # {}
    /\ MissingBlocks(field_values) = {}
    /\ gen_outcome' = [kind |-> "raised", text |-> EMPTY]
    /\ generated_text' = StoreGenerated(generated_text, NONE)
    /\ UNCHANGED <<selected_blocks, field_values>>
    /\ Show(Render(generated_text', FieldGet(field_values, "ProjectName"), ex,
                   {"generation_failed"}))

\* lines 280-281, and the first run of a new session with the default widgets
Init ==
    /\ generated_text = EMPTY
    /\ selected_blocks = {}
    /\ field_values = << >>
    /\ clicked = FALSE
    /\ gen_outcome = NotCalled
    /\ messages = {}
    /\ preview = NONE
    /\ filename_base = NONE
    /\ pptx_4x3 = NoButton
    /\ pptx_16x9 = NoButton
    /\ docx = NoButton

Next ==
    \/ RunNoApiKey
    \/ \E fv \in FormInputs, ex \in ExportOutcomes : Rerun(fv, ex)
    \/ \E ex \in ExportOutcomes : ClickNoBlocks(ex)
    \/ \E ex \in ExportOutcomes : ClickMissing(ex)
    \/ ClickTemplateMissing
    \/ \E text \in SessionTexts, ex \in ExportOutcomes : ClickGenerated(text, ex)
    \/ \E ex \in ExportOutcomes : ClickGenerateError(ex)

Spec == Init /\ [][Next]_vars

----------------------------------------------------------------------------
(* The export of a stored text, over a bounded set of texts *)

MaxLines == 3

\* the lines the texts are made of
LineSet ==
    {EMPTY,
     <<"a">>,
     <<MARK>>,
     <<"#", " ", "a">>,
     <<"#", "#", " ", "b">>,
     <<"#", " ", MARK>>,
     <<"#">>,
     <<"#", " ", " ">>,
     <<"#", "#", "#", "#", "#", "#", "#", " ", "a">>,
     <<"-">>,
     <<"-", " ", "#", " ", "a">>,
     <<"*", "*", "a", "*", "*">>,
     <<"1", ".", " ", "a">>,
     <<CJK2, DUN, " ", "a">>,
     <<"*", " ", "a">>,
     <<"a", "/", "b">>,
     <<"_", "a">>,
     <<"a", " ", "(", "b", ")">>}

\* "\n".join(ls)
RECURSIVE JoinLines(_)
JoinLines(ls) ==
    IF Len(ls) = 1 THEN ls[1]
    ELSE ls[1] \o <<NL>> \o JoinLines(Tail(ls))

Texts == {JoinLines(ls) : ls \in UNION {[1..n -> LineSet] : n \in 1..MaxLines}}

\* the forms of the runs that export: the project title filled in, or left out
ExportForms ==
    {[b \in {"ProjectName"} |-> <<"u">>], [b \in {"ProjectGoal"} |-> <<"u">>]}

(* A session that holds a text of Texts, and whose last run stopped in     *)
(* generate_content for want of a template file, so that nothing is drawn. *)
InitExport ==
    /\ generated_text \in Texts \ {EMPTY}
    /\ field_values \in ExportForms
    /\ selected_blocks = DOMAIN field_values
    /\ clicked = TRUE
    /\ gen_outcome = [kind |-> "template_missing", text |-> EMPTY]
    /\ messages = {"no_template"}
    /\ preview = NONE
    /\ filename_base = NONE
    /\ pptx_4x3 = NoButton
    /\ pptx_16x9 = NoButton
    /\ docx = NoButton

\* the next run, with the export backends working
NextExport == Rerun(field_values, AllOk)

SpecExport == InitExport /\ [][NextExport]_vars

----------------------------------------------------------------------------
(* Properties of the session: generation, validation, export failures *)

Offered(b) == b.offered

\* the generation backend was called in the last run
BackendCalled == gen_outcome.kind \in {"returned", "raised"}

(* C1: after a generation attempt that passed validation the stored text   *)
(* is that attempt's outcome: the returned text (also when it is empty),   *)
(* or the empty string when the backend raised; nothing is previewed or    *)
(* offered from an earlier generation's text.                              *)
C1_StoredTextIsOutcome ==
    /\ gen_outcome.kind = "returned" => generated_text = gen_outcome.text
    /\ gen_outcome.kind = "raised" =>
          /\ generated_text = EMPTY
          /\ preview = NONE
          /\ ~Offered(pptx_4x3) /\ ~Offered(pptx_16x9) /\ ~Offered(docx)

\* the form as the claim reads it: some block selected, none blank once trimmed
FormValid(sel, fv) ==
    /\ sel # {}
    /\ \A b \in sel : Strip(FieldGet(fv, b)) # EMPTY

(* C2: a click with no block selected, or with a selected block that is    *)
(* blank after trimming, does not call the generation backend and leaves   *)
(* the stored text as it was; the backend is called only on a click with   *)
(* at least one block selected and every selected block non-blank.         *)
C2_ValidationGate ==
    [][ /\ (clicked' /\ ~FormValid(selected_blocks', field_values'))
            => (gen_outcome'.kind = "not_called" /\ generated_text' = generated_text)
        /\ (gen_outcome'.kind \in {"returned", "raised"})
            => (clicked' /\ FormValid(selected_blocks', field_values')) ]_vars

\* a click refused for a field of blanks, with an earlier text still stored and shown
C2_Witness ==
    /\ clicked
    /\ \E b \in selected_blocks : field_values[b] = <<" ">>
    /\ "missing" \in messages
    /\ generated_text # EMPTY
    /\ preview # NONE

(* C3: with a stored text and a filename base, a failure while building a  *)
(* slide deck does not keep the Word download from being offered, and a    *)
(* failure while building the Word document does not keep the slide decks  *)
(* from being offered: each artifact is offered unless its own export      *)
(* failed.                                                                 *)
C3_IndependentExports ==
    filename_base # NONE =>
        /\ (messages \cap {"docx_import_error", "docx_exception"} = {}) => Offered(docx)
        /\ (messages \cap {"pptx_import_error", "pptx_exception"} = {})
              => (Offered(pptx_4x3) /\ Offered(pptx_16x9))


\* str.strip() extended to underscores
StripWsUnderscore(s) ==
    LET keep == {i \in 1..Len(s) : ~IsWs(s[i]) /\ s[i] # "_"}
    IN  IF keep = {} THEN EMPTY ELSE SubSeq(s, Min(keep), Max(keep))

\* sanitize(name) as the specification's section 4.1 words it
SanitizeSpec(name) ==
    StripWsUnderscore([k \in 1..Len(name) |->
                          IF name[k] \in IllegalChars THEN "_" ELSE name[k]])

\* the user's title field, as the last run read it
UserTitle == FieldGet(field_values, "ProjectName")

(* C5, as claimed: whenever the user's project-title field is non-blank    *)
(* after trimming, the filename base and the title-slide text are the      *)
(* sanitized user title, whatever the generated text holds.                *)
C5_UserTitleWins ==
    (preview # NONE /\ Strip(UserTitle) # EMPTY) =>
        /\ filename_base = SanitizeSpec(UserTitle)
        /\ Offered(pptx_4x3) => pptx_4x3.data.slides[1].title = SanitizeSpec(UserTitle)

(* C5, amended: the user's title field never decides the filename base or  *)
(* the title-slide text.  Between two runs that render the same stored     *)
(* text the filename base is the same, whatever the form holds in either   *)
(* run, and the title slide of each offered deck carries that filename     *)
(* base.                                                                   *)
C5_TitleFromTextOnly ==
    [][ /\ (generated_text' = generated_text /\ preview # NONE /\ preview' # NONE)
            => filename_base' = filename_base
        /\ Offered(pptx_4x3') => pptx_4x3'.data.slides[1].title = filename_base'
        /\ Offered(pptx_16x9') => pptx_16x9'.data.slides[1].title = filename_base' ]_vars

\* a run with a non-blank user title whose downloads are named after the text
C5_Witness ==
    /\ Strip(UserTitle) # EMPTY
    /\ filename_base \notin {NONE, SanitizeSpec(UserTitle)}
    /\ Offered(pptx_4x3)
    /\ pptx_4x3.data.slides[1].title = filename_base

----------------------------------------------------------------------------
(* Properties of the export, read line by line as the specification words  *)
(* its heading grammar                                                     *)

\* the last run drew the result section for the stored text
ExportRun == ~clicked /\ preview # NONE

AllOffered == Offered(pptx_4x3) /\ Offered(pptx_16x9) /\ Offered(docx)

NoneOffered == ~Offered(pptx_4x3) /\ ~Offered(pptx_16x9) /\ ~Offered(docx)

TextLines == SplitLines(generated_text)

Chars(l) == {l[k] : k \in 1..Len(l)}

\* the "project name" heading is in the text, with a non-blank line after it
HasNameHeading ==
    \E i \in 1..Len(TextLines) : \E j \in (i + 1)..Len(TextLines) :
        MARK \in Chars(TextLines[i]) /\ Strip(TextLines[j]) # EMPTY

(* C4, as claimed: for every non-empty stored text a filename base is      *)
(* determined and the slide and document downloads are offered; export is  *)
(* never blocked because no title pattern matched.                         *)
C4_NeverBlocked ==
    ExportRun => (filename_base \notin {NONE, EMPTY} /\ AllOffered)

(* C4, amended: a filename base is determined only when the stored text    *)
(* holds the "project name" heading with a non-blank line after it; there  *)
(* is no timestamp fallback.  Without a filename base the run shows the    *)
(* "cannot extract the project name" error and offers no download; with    *)
(* one, it is non-empty and, the export backends working, both slide decks *)
(* and the Word document are offered under that name.                      *)
C4_TitleGate ==
    ExportRun =>
        /\ ~HasNameHeading => filename_base = NONE
        /\ filename_base = NONE => ("no_title" \in messages /\ NoneOffered)
        /\ filename_base # NONE =>
              /\ filename_base # EMPTY
              /\ AllOffered
              /\ pptx_4x3.file_name = filename_base \o <<"_4x3.pptx">>
              /\ pptx_16x9.file_name = filename_base \o <<"_16x9.pptx">>
              /\ docx.file_name = filename_base \o <<".docx">>

\* a stored text without the heading: the export is blocked with the error
C4_Witness ==
    /\ ExportRun
    /\ MARK \notin Chars(generated_text)
    /\ filename_base = NONE
    /\ "no_title" \in messages
    /\ NoneOffered

\* the number of '#' a line starts with
LeadHashes(l) ==
    LET other == {k \in 1..Len(l) : l[k] # "#"}
    IN  IF other = {} THEN Len(l) ELSE Min(other) - 1

AfterHashes(l) == SubSeq(l, LeadHashes(l) + 1, Len(l))

\* 1-6 '#', then whitespace, then non-empty text
IsMdHeadingLine(l) ==
    /\ LeadHashes(l) \in 1..6
    /\ Len(l) > LeadHashes(l) /\ IsWs(l[LeadHashes(l) + 1])
    /\ Strip(AfterHashes(l)) # EMPTY

\* a bare run of 1-6 '#' followed only by whitespace up to the end of the line
IsBareHeadingLine(l) ==
    /\ LeadHashes(l) \in 1..6
    /\ Strip(AfterHashes(l)) = EMPTY

\* the whole line, once trimmed, is wrapped in a pair of '**'
IsBoldLine(l) ==
    LET t == Strip(l)
    IN  /\ Len(t) >= 5
        /\ t[1] = "*" /\ t[2] = "*" /\ t[Len(t) - 1] = "*" /\ t[Len(t)] = "*"

BoldTitle(l) == SubSeq(Strip(l), 3, Len(Strip(l)) - 2)

Digits == {"0", "1", "2", "3", "4", "5", "6", "7", "8", "9"}
CJKNumerals == {CJK2}

\* the length of the numeral run an enumerated heading starts with, 0 if it is none
EnumRun(l) ==
    LET ok == {k \in 1..(Len(l) - 2) :
                 /\ \/ \A i \in 1..k : l[i] \in Digits
                    \/ \A i \in 1..k : l[i] \in CJKNumerals
                 /\ l[k + 1] \in {".", DUN}
                 /\ IsWs(l[k + 2])
                 /\ Strip(SubSeq(l, k + 2, Len(l))) # EMPTY}
    IN  IF ok = {} THEN 0 ELSE Min(ok)

IsEnumLine(l) == EnumRun(l) > 0

EnumTitle(l) == Strip(SubSeq(l, EnumRun(l) + 2, Len(l)))

\* the legacy form: a '-', '*' or '+' marker before the '#' run
IsLegacyLine(l) ==
    /\ Len(l) >= 2
    /\ l[1] \in {"-", "*", "+"}
    /\ LET r == SubSeq(l, WsEnd(l, 2), Len(l))
       IN  IsMdHeadingLine(r) \/ IsBareHeadingLine(r)

IsOtherHeadingForm(l) == IsBoldLine(l) \/ IsEnumLine(l) \/ IsLegacyLine(l)

\* the lines that are '#' headings, with or without a text
HashHeadings(ls) ==
    {j \in 1..Len(ls) : IsMdHeadingLine(ls[j]) \/ IsBareHeadingLine(ls[j])}

\* the k-th element of a set of line numbers
Nth(S, k) == CHOOSE j \in S : Cardinality({i \in S : i <= j}) = k

\* the lines after line a and before line b, as one text
Between(ls, a, b) == IF a + 1 > b - 1 THEN EMPTY ELSE JoinLines(SubSeq(ls, a + 1, b - 1))

(* The sections of a text whose only headings are '#' headings: one per    *)
(* heading line in source order, titled with the heading's trimmed text,   *)
(* its body the text up to the next heading line (compared trimmed).       *)
ExpectedSections(ls) ==
    LET H == HashHeadings(ls)
    IN  [k \in 1..Cardinality(H) |->
            [title |-> Strip(AfterHashes(ls[Nth(H, k)])),
             body  |-> Strip(Between(ls, Nth(H, k),
                                     IF k < Cardinality(H) THEN Nth(H, k + 1)
                                     ELSE Len(ls) + 1))]]

\* the headings of the Word document, in order
DocHeadings(blocks) == SelectSeq(blocks, LAMBDA b : b.kind = "heading")

\* the deck is a title slide followed by the sections `exp`, and the Word
\* document's headings are their titles; `alt` stands in for an empty title
RendersSections(deck, exp, alt) ==
    /\ Len(deck.slides) = 1 + Len(exp)
    /\ deck.slides[1].layout = 0
    /\ \A k \in 1..Len(exp) :
          /\ deck.slides[k + 1].layout = 1
          /\ deck.slides[k + 1].title =
                (IF exp[k].title = EMPTY THEN alt ELSE exp[k].title)
          /\ deck.slides[k + 1].content = exp[k].body

DocRendersSections(blocks, exp, alt) ==
    /\ Len(DocHeadings(blocks)) = Len(exp)
    /\ \A k \in 1..Len(exp) :
          DocHeadings(blocks)[k].text =
              (IF exp[k].title = EMPTY THEN alt ELSE exp[k].title)

(* C6: a text with N >= 1 Markdown '#' heading lines (1-6 '#', whitespace, *)
(* non-empty text) and no other heading form yields N sections in source   *)
(* order, the i-th titled with the i-th heading's trimmed text and holding *)
(* the text between that heading and the next; the deck is one title slide *)
(* and N content slides in that order, the Word document has N headings.   *)
C6_MarkdownSections ==
    (/\ ExportRun /\ AllOffered
     /\ \E j \in 1..Len(TextLines) : IsMdHeadingLine(TextLines[j])
     /\ \A j \in 1..Len(TextLines) :
           ~IsBareHeadingLine(TextLines[j]) /\ ~IsOtherHeadingForm(TextLines[j]))
    => /\ RendersSections(pptx_4x3.data, ExpectedSections(TextLines), EMPTY)
       /\ RendersSections(pptx_16x9.data, ExpectedSections(TextLines), EMPTY)
       /\ DocRendersSections(docx.data, ExpectedSections(TextLines), EMPTY)

\* no line of the text is a heading line of any form
ZeroHeadingLines ==
    \A j \in 1..Len(TextLines) :
        /\ ~IsMdHeadingLine(TextLines[j]) /\ ~IsBareHeadingLine(TextLines[j])
        /\ ~IsOtherHeadingForm(TextLines[j])

\* the deck is the title slide and one content slide: the title over the raw text
IsFallbackDeck(deck) ==
    /\ Len(deck.slides) = 2
    /\ deck.slides[1].layout = 0 /\ deck.slides[1].title = filename_base
    /\ deck.slides[2].layout = 1 /\ deck.slides[2].title = filename_base
    /\ deck.slides[2].content = generated_text

IsFallbackDoc(blocks) == blocks = <<[kind |-> "paragraph", text |-> generated_text]>>

(* C7: a text with zero heading lines has no sections and both assemblers  *)
(* fall back: the deck is the title slide plus exactly one content slide,  *)
(* headed by the document title and holding the full raw text, and the     *)
(* Word document is the full raw text as one paragraph, with no heading.   *)
C7_NoHeadingFallback ==
    (ExportRun /\ AllOffered /\ ZeroHeadingLines)
    => /\ IsFallbackDeck(pptx_4x3.data)
       /\ IsFallbackDeck(pptx_16x9.data)
       /\ IsFallbackDoc(docx.data)

\* a multi-line text without heading lines was exported
C7_Witness ==
    /\ ExportRun /\ AllOffered /\ ZeroHeadingLines
    /\ Len(TextLines) = 3
    /\ IsFallbackDeck(pptx_4x3.data) /\ IsFallbackDoc(docx.data)

\* the lines that are bold-only or enumerated
BoldOrEnumLines == {j \in 1..Len(TextLines) : IsBoldLine(TextLines[j]) \/ IsEnumLine(TextLines[j])}

\* the text such a line would be captured as
CapturedTitle(l) == IF IsBoldLine(l) THEN BoldTitle(l) ELSE EnumTitle(l)

\* line l opened a section of its own: a content slide and a Word heading carry
\* its captured text, and no content slide holds the line in its body
OpensOwnSection(l) ==
    /\ \E k \in 2..Len(pptx_4x3.data.slides) :
          pptx_4x3.data.slides[k].title = CapturedTitle(l)
    /\ \A k \in 2..Len(pptx_4x3.data.slides) :
          \A n \in 1..Len(pptx_4x3.data.slides[k].lines) :
              pptx_4x3.data.slides[k].lines[n] # l
    /\ \E k \in 1..Len(DocHeadings(docx.data)) :
          DocHeadings(docx.data)[k].text = CapturedTitle(l)

HashLines == {j \in 1..Len(TextLines) : "#" \in Chars(TextLines[j])}

C9_EmptyTitleSection ==
    (/\ ExportRun /\ AllOffered
     /\ \E j \in 1..(Len(TextLines) - 1) :
           IsBareHeadingLine(TextLines[j]) /\ Strip(TextLines[j + 1]) # EMPTY
     /\ \A j \in 1..Len(TextLines) : ~IsOtherHeadingForm(TextLines[j]))
    => /\ RendersSections(pptx_4x3.data, ExpectedSections(TextLines), filename_base)
       /\ RendersSections(pptx_16x9.data, ExpectedSections(TextLines), filename_base)
       /\ DocRendersSections(docx.data, ExpectedSections(TextLines), filename_base)

(* C10: the filename base of every download name is sanitize(title): each  *)
(* of \ / : * ? " < > | replaced by '_', then leading and trailing         *)
(* whitespace and underscores stripped; so it holds none of those nine     *)
(* characters and neither begins nor ends with whitespace or '_'.          *)
C10_SanitizedFilenameBase ==
    (ExportRun /\ filename_base # NONE) =>
        /\ filename_base = SanitizeSpec(extract_project_title(generated_text))
        /\ Chars(filename_base) \cap IllegalChars = {}
        /\ ~IsWs(filename_base[1]) /\ filename_base[1] # "_"
        /\ ~IsWs(filename_base[Len(filename_base)])
        /\ filename_base[Len(filename_base)] # "_"

\* the lines before the first '#' heading line, as one trimmed text
LeadingText(ls) == Strip(Between(ls, 0, Min(HashHeadings(ls))))

\* the line appears, trimmed, as a paragraph of some content slide of the deck
InSomeContentSlide(deck, l) ==
    \E k \in 2..Len(deck.slides) : \E n \in 1..Len(deck.slides[k].lines) :
        Strip(deck.slides[k].lines[n]) = Strip(l)

\* the line appears, trimmed, as a paragraph of the Word document
InSomeDocParagraph(blocks, l) ==
    \E k \in 1..Len(blocks) :
        blocks[k].kind = "paragraph" /\ Strip(blocks[k].text) = Strip(l)

(* C11: no content is lost by segmentation.  When the text has at least    *)
(* one '#' heading line and non-blank lines before the first of them, the  *)
(* leading lines are the body of a first section (shown under the document *)
(* title, its own title being empty), and every non-blank line that is not *)
(* a heading line is in some content slide and in some Word paragraph.     *)
(* Stated for the texts whose heading lines all carry a text and that hold *)
(* no other heading form and no lone '-' or '*' line.                      *)
C11_NoContentLost ==
    (/\ ExportRun /\ AllOffered
     /\ HashHeadings(TextLines) # {}
     /\ \A j \in 1..Len(TextLines) :
           /\ ~IsBareHeadingLine(TextLines[j])
           /\ ~IsOtherHeadingForm(TextLines[j])
           /\ Strip(TextLines[j]) \notin {<<"-">>, <<"*">>}
     /\ LeadingText(TextLines) # EMPTY)
    => /\ pptx_4x3.data.slides[2].content = LeadingText(TextLines)
       /\ pptx_16x9.data.slides[2].content = LeadingText(TextLines)
       /\ \A j \in 1..Len(TextLines) :
             (Strip(TextLines[j]) # EMPTY /\ j \notin HashHeadings(TextLines))
             => /\ InSomeContentSlide(pptx_4x3.data, TextLines[j])
                /\ InSomeContentSlide(pptx_16x9.data, TextLines[j])
                /\ InSomeDocParagraph(docx.data, TextLines[j])

====
